---- MODULE Spec2Model ----
(***************************************************************************)
(* A model of the two banking programs of the repository:                  *)
(*   desafio_bancario_otimizado.py  the object model (Historico, Conta,    *)
(*       ContaCorrente, Saque, Deposito, Cliente) and its shell main();    *)
(*   desafio.py                     the procedural script.                 *)
(* prog says which of them runs: "api" (the classes of the object model    *)
(* called directly on an account), "cliente" (an account reached through   *)
(* Cliente.realizar_transacao alone), "main" (main() of the object model), *)
(* "desafio" (the script).                                                 *)
(***************************************************************************)
EXTENDS Integers, Sequences, FiniteSets, TLC

VARIABLES prog, pc, hoje, clientes, contas, saldo, extrato, numero_saques, last

vars == <<prog, pc, hoje, clientes, contas, saldo, extrato, numero_saques, last>>

(* ------------------------------ bounds --------------------------------- *)
\* days run from 0 to MaxDia
MaxDia == 1
\* history records over all accounts
MaxHist == 2
\* history records of the account reached through realizar_transacao alone
MaxHistCliente == 3
\* account objects
MaxContas == 1
\* clients of main()
MaxClientes == 2
\* largest balance
MaxSaldo == 700
\* lines of extrato in desafio.py
MaxLinhas == 3

(* ------------------------------ floats --------------------------------- *)
\* A Python float: a number or nan. Every comparison with nan is False and
\* every sum or difference with nan is nan.
F(n) == [nan |-> FALSE, n |-> n]
NaN == [nan |-> TRUE, n |-> 0]
Gt(a, b) == ~a.nan /\ ~b.nan /\ a.n > b.n
Le(a, b) == ~a.nan /\ ~b.nan /\ a.n <= b.n
Ge(a, b) == ~a.nan /\ ~b.nan /\ a.n >= b.n
Add(a, b) == IF a.nan \/ b.nan THEN NaN ELSE F(a.n + b.n)
Sub(a, b) == IF a.nan \/ b.nan THEN NaN ELSE F(a.n - b.n)

\* the amounts the operations are called with
Valores == {NaN, F(-100), F(0), F(100), F(600)}

\* the texts typed at an amount prompt
Textos == {"abc", "nan", "-100", "0", "100", "600"}

\* float(text): ValueError (ok = FALSE) or the float
ParseFloat(t) ==
    CASE t = "nan" -> [ok |-> TRUE, v |-> NaN]
      [] t = "-100" -> [ok |-> TRUE, v |-> F(-100)]
      [] t = "0" -> [ok |-> TRUE, v |-> F(0)]
      [] t = "100" -> [ok |-> TRUE, v |-> F(100)]
      [] t = "600" -> [ok |-> TRUE, v |-> F(600)]
      [] OTHER -> [ok |-> FALSE, v |-> F(0)]

(* ------------------------------ Historico ------------------------------ *)
\* datetime.now() on day dia; the time of day is written to the record's text
\* and never read again, so an instant is its day and one time of day
Now(dia) == [dia |-> dia, hms |-> 0]
\* strftime("%d-%m-%Y %H:%M:%S"): the text, as its date part and time part
Strftime(dt) == <<dt.dia, dt.hms>>
\* strptime(text, "%d-%m-%Y %H:%M:%S")
Strptime(s) == [dia |-> s[1], hms |-> s[2]]
\* datetime.date()
Date(dt) == dt.dia

adicionar_transacao(transacoes, tipo, valor, dt) ==
    Append(transacoes, [tipo |-> tipo, valor |-> valor, data |-> Strftime(dt)])

\* a bug: every record counts as today's
transacoes_do_dia_SemData(transacoes, data_atual) == transacoes

transacoes_do_dia(transacoes, data_atual) ==
    SelectSeq(transacoes, LAMBDA t : data_atual = Date(Strptime(t.data)))

(* ------------------------------ Conta ---------------------------------- *)
Ret(res, msg, novo) == [res |-> res, msg |-> msg, saldo |-> novo]

\* a bug: 0 passes the check of the amount
Conta_sacar_AceitaZero(s, valor) ==
    IF ~valor.nan /\ valor.n < 0 THEN Ret(FALSE, "invalido", s)
    ELSE IF Gt(valor, s) THEN Ret(FALSE, "saldo", s)
    ELSE Ret(TRUE, "ok", Sub(s, valor))

Conta_sacar(s, valor) ==
    IF Le(valor, F(0)) THEN Ret(FALSE, "invalido", s)
    ELSE IF Gt(valor, s) THEN Ret(FALSE, "saldo", s)
    ELSE Ret(TRUE, "ok", Sub(s, valor))

Conta_depositar(s, valor) ==
    IF Le(valor, F(0)) THEN Ret(FALSE, "invalido", s)
    ELSE Ret(TRUE, "ok", Add(s, valor))

saques_do_dia(conta, dia) ==
    SelectSeq(transacoes_do_dia(conta.historico, dia), LAMBDA t : t.tipo = "Saque")

\* a bug: the count is compared with > where the code has >=
ContaCorrente_sacar_UmAMais(conta, valor, dia) ==
    LET numero == Len(saques_do_dia(conta, dia))
    IN  IF Gt(valor, conta.limite) THEN Ret(FALSE, "limite", conta.saldo)
        ELSE IF numero > conta.limite_saques THEN Ret(FALSE, "saques", conta.saldo)
        ELSE Conta_sacar(conta.saldo, valor)

\* a bug: the count is checked before the cap
ContaCorrente_sacar_OrdemTrocada(conta, valor, dia) ==
    LET numero == Len(saques_do_dia(conta, dia))
    IN  IF numero >= conta.limite_saques THEN Ret(FALSE, "saques", conta.saldo)
        ELSE IF Gt(valor, conta.limite) THEN Ret(FALSE, "limite", conta.saldo)
        ELSE Conta_sacar(conta.saldo, valor)

ContaCorrente_sacar(conta, valor, dia) ==
    LET numero == Len(saques_do_dia(conta, dia))
    IN  IF Gt(valor, conta.limite) THEN Ret(FALSE, "limite", conta.saldo)
        ELSE IF numero >= conta.limite_saques THEN Ret(FALSE, "saques", conta.saldo)
        ELSE Conta_sacar(conta.saldo, valor)

\* conta.sacar(valor): every account the program builds is a ContaCorrente,
\* whose sacar overrides Conta's
sacar(conta, valor, dia) == ContaCorrente_sacar(conta, valor, dia)

\* conta.depositar(valor): Conta's, ContaCorrente does not override it
depositar(conta, valor) == Conta_depositar(conta.saldo, valor)

(* ------------------------------ Transacao ------------------------------ *)
\* what a call on an account returns, with the account as it leaves it
Feito(r, conta) == [res |-> r.res, msg |-> r.msg, conta |-> conta]

\* a bug: the record is written whatever sacar returns
Saque_registrar_SempreRegistra(conta, valor, dia, dt) ==
    LET r == sacar(conta, valor, dia)
        c == [conta EXCEPT !.saldo = r.saldo]
    IN  Feito(r, [c EXCEPT !.historico = adicionar_transacao(@, "Saque", valor, dt)])

Saque_registrar(conta, valor, dia, dt) ==
    LET r == sacar(conta, valor, dia)
        c == [conta EXCEPT !.saldo = r.saldo]
    IN  IF r.res
        THEN Feito(r, [c EXCEPT !.historico = adicionar_transacao(@, "Saque", valor, dt)])
        ELSE Feito(r, c)

Deposito_registrar(conta, valor, dt) ==
    LET r == depositar(conta, valor)
        c == [conta EXCEPT !.saldo = r.saldo]
    IN  IF r.res
        THEN Feito(r, [c EXCEPT !.historico = adicionar_transacao(@, "Deposito", valor, dt)])
        ELSE Feito(r, c)

registrar(conta, tipo, valor, dia, dt) ==
    IF tipo = "Saque"
    THEN Saque_registrar(conta, valor, dia, dt)
    ELSE Deposito_registrar(conta, valor, dt)

(* ------------------------------ Cliente -------------------------------- *)
\* a bug: the cap is compared with > where the code has >=
realizar_transacao_UmAMais(conta, tipo, valor, dia1, dia2, dt) ==
    IF Len(transacoes_do_dia(conta.historico, dia1)) > 2
    THEN [res |-> FALSE, msg |-> "transacoes", conta |-> conta]
    ELSE registrar(conta, tipo, valor, dia2, dt)

\* a bug: the cap counts the day's deposits alone
realizar_transacao_SoDepositos(conta, tipo, valor, dia1, dia2, dt) ==
    IF Len(SelectSeq(transacoes_do_dia(conta.historico, dia1),
                     LAMBDA t : t.tipo = "Deposito")) >= 2
    THEN [res |-> FALSE, msg |-> "transacoes", conta |-> conta]
    ELSE registrar(conta, tipo, valor, dia2, dt)

\* dia1: the day realizar_transacao reads, dia2: the day ContaCorrente.sacar
\* reads, dt: the instant adicionar_transacao reads
realizar_transacao(conta, tipo, valor, dia1, dia2, dt) ==
    IF Len(transacoes_do_dia(conta.historico, dia1)) >= 2
    THEN [res |-> FALSE, msg |-> "transacoes", conta |-> conta]
    ELSE registrar(conta, tipo, valor, dia2, dt)

Conta_init(numero, cliente) ==
    [numero |-> numero, cliente |-> cliente, saldo |-> F(0), historico |-> <<>>]

ContaCorrente_init(numero, cliente, lim, lim_saques) ==
    Conta_init(numero, cliente) @@ [limite |-> lim, limite_saques |-> lim_saques]

(* ------------------------------ desafio.py ----------------------------- *)
\* a line of extrato: "Depósito: R$ 100.00\n"
Linha(tipo, valor) == [tipo |-> tipo, valor |-> valor]

desafio_depositar(s, e, valor) ==
    IF Gt(valor, F(0))
    THEN [saldo |-> Add(s, valor), extrato |-> Append(e, Linha("Deposito", valor)),
          msg |-> "ok"]
    ELSE [saldo |-> s, extrato |-> e, msg |-> "invalido"]

desafio_sacar(s, e, n, valor, limite, limite_saques) ==
    LET excedeu_saldo == Gt(valor, s)
        excedeu_limite == Gt(valor, limite)
        excedeu_saques == n >= limite_saques
        falhou(msg) == [saldo |-> s, extrato |-> e, numero_saques |-> n, msg |-> msg]
    IN  IF excedeu_saldo THEN falhou("saldo")
        ELSE IF excedeu_limite THEN falhou("limite")
        ELSE IF excedeu_saques THEN falhou("saques")
        ELSE IF Gt(valor, F(0))
        THEN [saldo |-> Sub(s, valor), extrato |-> Append(e, Linha("Saque", valor)),
              numero_saques |-> n + 1, msg |-> "ok"]
        ELSE falhou("invalido")

\* limite = 500 and LIMITE_SAQUES = 3 of desafio.py
limite == F(500)
LIMITE_SAQUES == 3

(* ------------------------------ main(): helpers ------------------------ *)
\* a text is the sequence of its characters
\* str.strip(): without the blanks at its ends
RECURSIVE LStrip(_)
LStrip(s) == IF s # <<>> /\ Head(s) = " " THEN LStrip(Tail(s)) ELSE s
RECURSIVE RStrip(_)
RStrip(s) == IF s # <<>> /\ s[Len(s)] = " " THEN RStrip(SubSeq(s, 1, Len(s) - 1)) ELSE s
Strip(s) == RStrip(LStrip(s))
\* str.replace(ch, "")
Replace(s, ch) == SelectSeq(s, LAMBDA c : c # ch)

\* the cpf criar_cliente makes of the text typed: strip, then without . and -
LerCpf(texto) == Replace(Replace(Strip(texto), "."), "-")

\* a bug: the first client of the list is skipped
filtrar_cliente_PulaPrimeiro(cpf, cs) ==
    LET achados == {i \in 2..Len(cs) : cs[i].cpf = cpf}
    IN  IF achados = {} THEN 0 ELSE CHOOSE i \in achados : \A j \in achados : i <= j

\* filtrar_cliente: the first client with this cpf (its place in the list), 0 for None
filtrar_cliente(cpf, cs) ==
    LET achados == {i \in 1..Len(cs) : cs[i].cpf = cpf}
    IN  IF achados = {} THEN 0 ELSE CHOOSE i \in achados : \A j \in achados : i <= j

\* recuperar_conta_cliente: the client's first account, 0 for None
recuperar_conta_cliente(cliente) ==
    IF cliente.contas = <<>> THEN 0 ELSE cliente.contas[1]

PessoaFisica(nome, cpf) == [nome |-> nome, cpf |-> cpf, contas |-> <<>>]

\* the texts typed at a cpf prompt
Cpfs == {<<"1">>, <<"2">>, <<" ", "1", ".", "-">>}
Nomes == {"Ana", "Bia"}

(* ------------------------------ state ---------------------------------- *)
Tipos == {"Saque", "Deposito"}
\* the caps the accounts of the object model are built with
Limites == {F(500)}
LimitesSaques == {2}
\* those of the account reached through realizar_transacao alone: a cap of one
\* withdrawal a day, and the 3 of ContaCorrente.__init__ and criar_conta
LimitesSaquesCliente == {1, 3}
Dias == 0..MaxDia
\* the days the clock can show during a call that starts on day d: at most
\* one midnight passes within a call
DiasDe(d) == {d2 \in Dias : d <= d2 /\ d2 <= d + 1}

\* The clock is read by realizar_transacao (dia1), by ContaCorrente.sacar
\* (dia2) and by adicionar_transacao (dia3), in this order; a read that the call
\* does not reach shows no day of its own.
Leituras(tipo, dia1, dia2, dia3, chegou, res) ==
    /\ dia1 <= dia2 /\ dia2 <= dia3
    /\ (~chegou \/ tipo = "Deposito") => dia2 = dia1
    /\ ~res => dia3 = dia2

\* the arguments of an operation that has none of them
SemArgs ==
    [conta |-> 0, tipo |-> "-", valor |-> F(0), texto |-> "-", cpf |-> <<>>,
     dia1 |-> 0, dia2 |-> 0]

\* the program's data before the operation
Antes ==
    [clientes |-> clientes, contas |-> contas, saldo |-> saldo, extrato |-> extrato,
     numero_saques |-> numero_saques, hoje |-> hoje]

\* for each account, the registrar calls that returned True so far
Feitas(op, arg, res) ==
    IF op \in {"nova_conta", "nc"} /\ res THEN Append(last.feitas, 0)
    ELSE IF op \in {"registrar", "realizar_transacao", "d", "s"} /\ arg.conta # 0 /\ res
    THEN [last.feitas EXCEPT ![arg.conta] = @ + 1]
    ELSE last.feitas

\* last: the operation that led to the state, what it returned or printed, the
\* data it started from, and the count of the transactions registered
Ultima(op, arg, res, msg) ==
    [op |-> op, arg |-> arg, res |-> res, msg |-> msg, antes |-> Antes,
     feitas |-> Feitas(op, arg, res)]

\* records in all the histories
TotalHist(cs) ==
    LET RECURSIVE Soma(_)
        Soma(i) == IF i = 0 THEN 0 ELSE Len(cs[i].historico) + Soma(i - 1)
    IN  Soma(Len(cs))

\* the model's cut: balances up to MaxSaldo, MaxHist records
Cabe(cs) ==
    /\ TotalHist(cs) <= IF prog = "cliente" THEN MaxHistCliente ELSE MaxHist
    /\ \A i \in 1..Len(cs) : cs[i].saldo.nan \/ cs[i].saldo.n <= MaxSaldo

Inicio(progs) ==
    /\ prog \in progs
    /\ pc = "menu"
    /\ hoje = 0
    /\ clientes = <<>>
    /\ contas = <<>>
    /\ saldo = F(0)
    /\ extrato = <<>>
    /\ numero_saques = 0
    /\ last = [op |-> "init", arg |-> SemArgs, res |-> TRUE, msg |-> "ok",
               antes |-> [clientes |-> <<>>, contas |-> <<>>, saldo |-> F(0),
                          extrato |-> <<>>, numero_saques |-> 0, hoje |-> 0],
               feitas |-> <<>>]

Init == Inicio({"api", "desafio"})

Desafio == <<saldo, extrato, numero_saques>>

\* midnight passes
PassaDia ==
    /\ prog \in {"api", "cliente", "main"}
    /\ pc = "menu"
    /\ hoje < MaxDia
    /\ hoje' = hoje + 1
    /\ last' = Ultima("dia", SemArgs, TRUE, "ok")
    /\ UNCHANGED <<prog, pc, clientes, contas, Desafio>>

(* ------------------------------ the classes, called directly ----------- *)
\* the account the calls are made on; accounts share no data (each has its
\* own Historico), so one account object shows what the classes do
ApiNovaConta ==
    /\ prog = "api"
    /\ contas = <<>>
    /\ \E lim \in Limites, ls \in LimitesSaques :
         contas' = Append(contas, ContaCorrente_init(Len(contas) + 1, 0, lim, ls))
         /\ last' = Ultima("nova_conta", [SemArgs EXCEPT !.conta = Len(contas) + 1],
                           TRUE, "ok")
    /\ UNCHANGED <<prog, pc, hoje, clientes, Desafio>>

\* conta.sacar(valor)
ApiSacar ==
    /\ prog = "api"
    /\ \E i \in 1..Len(contas), valor \in Valores :
         LET r == sacar(contas[i], valor, hoje)
         IN  /\ contas' = [contas EXCEPT ![i].saldo = r.saldo]
             /\ last' = Ultima("sacar",
                               [SemArgs EXCEPT !.conta = i, !.tipo = "Saque",
                                               !.valor = valor, !.dia1 = hoje, !.dia2 = hoje],
                               r.res, r.msg)
    /\ UNCHANGED <<prog, pc, hoje, clientes, Desafio>>

\* conta.depositar(valor)
ApiDepositar ==
    /\ prog = "api"
    /\ \E i \in 1..Len(contas), valor \in Valores :
         LET r == depositar(contas[i], valor)
         IN  /\ contas' = [contas EXCEPT ![i].saldo = r.saldo]
             /\ Cabe(contas')
             /\ last' = Ultima("depositar",
                               [SemArgs EXCEPT !.conta = i, !.tipo = "Deposito",
                                               !.valor = valor, !.dia1 = hoje, !.dia2 = hoje],
                               r.res, r.msg)
    /\ UNCHANGED <<prog, pc, hoje, clientes, Desafio>>

\* Saque(valor).registrar(conta), Deposito(valor).registrar(conta); midnight
\* may pass between the call and the record's timestamp
ApiRegistrar ==
    /\ prog = "api"
    /\ \E i \in 1..Len(contas), tipo \in Tipos, valor \in Valores,
          dia3 \in DiasDe(hoje) :
         LET r == registrar(contas[i], tipo, valor, hoje, Now(dia3))
         IN  /\ Leituras(tipo, hoje, hoje, dia3, TRUE, r.res)
             /\ contas' = [contas EXCEPT ![i] = r.conta]
             /\ Cabe(contas')
             /\ hoje' = dia3
             /\ last' = Ultima("registrar",
                               [SemArgs EXCEPT !.conta = i, !.tipo = tipo,
                                               !.valor = valor, !.dia1 = hoje, !.dia2 = hoje],
                               r.res, r.msg)
    /\ UNCHANGED <<prog, pc, clientes, Desafio>>

\* cliente.realizar_transacao(conta, transacao); midnight may pass between
\* the reads of the clock
ApiRealizarTransacao ==
    /\ prog \in {"api", "cliente"}
    /\ \E i \in 1..Len(contas), tipo \in Tipos, valor \in Valores,
          dia2 \in DiasDe(hoje), dia3 \in DiasDe(hoje) :
         LET r == realizar_transacao(contas[i], tipo, valor, hoje, dia2, Now(dia3))
         IN  /\ Leituras(tipo, hoje, dia2, dia3, r.msg # "transacoes", r.res)
             /\ contas' = [contas EXCEPT ![i] = r.conta]
             /\ Cabe(contas')
             /\ hoje' = dia3
             /\ last' = Ultima("realizar_transacao",
                               [SemArgs EXCEPT !.conta = i, !.tipo = tipo,
                                               !.valor = valor, !.dia1 = hoje, !.dia2 = dia2],
                               r.res, r.msg)
    /\ UNCHANGED <<prog, pc, clientes, Desafio>>

NextApi ==
    \/ ApiNovaConta
    \/ ApiSacar
    \/ ApiDepositar
    \/ ApiRegistrar
    \/ ApiRealizarTransacao

(* ------------------------------ the loop of desafio.py ----------------- *)
\* command d: float(input()) is not guarded, a ValueError ends the process
DesafioDepositar ==
    /\ prog = "desafio"
    /\ pc = "menu"
    /\ \E texto \in Textos :
         LET p == ParseFloat(texto)
             r == desafio_depositar(saldo, extrato, p.v)
             arg == [SemArgs EXCEPT !.tipo = "Deposito", !.texto = texto, !.valor = p.v]
         IN  IF ~p.ok
             THEN /\ pc' = "erro"
                  /\ last' = Ultima("d", arg, FALSE, "ValueError")
                  /\ UNCHANGED Desafio
             ELSE /\ saldo' = r.saldo
                  /\ extrato' = r.extrato
                  /\ saldo'.nan \/ saldo'.n <= MaxSaldo
                  /\ Len(extrato') <= MaxLinhas
                  /\ last' = Ultima("d", arg, r.msg = "ok", r.msg)
                  /\ UNCHANGED <<pc, numero_saques>>
    /\ UNCHANGED <<prog, hoje, clientes, contas>>

\* command s
DesafioSacar ==
    /\ prog = "desafio"
    /\ pc = "menu"
    /\ \E texto \in Textos :
         LET p == ParseFloat(texto)
             r == desafio_sacar(saldo, extrato, numero_saques, p.v, limite, LIMITE_SAQUES)
             arg == [SemArgs EXCEPT !.tipo = "Saque", !.texto = texto, !.valor = p.v]
         IN  IF ~p.ok
             THEN /\ pc' = "erro"
                  /\ last' = Ultima("s", arg, FALSE, "ValueError")
                  /\ UNCHANGED Desafio
             ELSE /\ saldo' = r.saldo
                  /\ extrato' = r.extrato
                  /\ numero_saques' = r.numero_saques
                  /\ Len(extrato') <= MaxLinhas
                  /\ last' = Ultima("s", arg, r.msg = "ok", r.msg)
                  /\ UNCHANGED pc
    /\ UNCHANGED <<prog, hoje, clientes, contas>>

\* command e
DesafioExtrato ==
    /\ prog = "desafio"
    /\ pc = "menu"
    /\ last' = Ultima("e", SemArgs, TRUE, "ok")
    /\ UNCHANGED <<prog, pc, hoje, clientes, contas, Desafio>>

\* command q
DesafioSair ==
    /\ prog = "desafio"
    /\ pc = "menu"
    /\ pc' = "fim"
    /\ last' = Ultima("q", SemArgs, TRUE, "ok")
    /\ UNCHANGED <<prog, hoje, clientes, contas, Desafio>>

\* any other command
DesafioInvalida ==
    /\ prog = "desafio"
    /\ pc = "menu"
    /\ last' = Ultima("?", SemArgs, FALSE, "invalida")
    /\ UNCHANGED <<prog, pc, hoje, clientes, contas, Desafio>>

NextDesafio ==
    \/ DesafioDepositar
    \/ DesafioSacar
    \/ DesafioExtrato
    \/ DesafioSair
    \/ DesafioInvalida

(* ------------------------------ main() --------------------------------- *)
\* depositar(clientes) and sacar(clientes): command d and command s
Transacionar(op, tipo) ==
    /\ prog = "main"
    /\ pc = "menu"
    /\ \E cpf \in Cpfs, texto \in Textos, dia2 \in DiasDe(hoje), dia3 \in DiasDe(hoje) :
         LET c == filtrar_cliente(cpf, clientes)
             p == ParseFloat(texto)
             i == recuperar_conta_cliente(clientes[c])
             r == realizar_transacao(contas[i], tipo, p.v, hoje, dia2, Now(dia3))
             arg == [SemArgs EXCEPT !.cpf = cpf, !.texto = texto, !.tipo = tipo,
                                    !.dia1 = hoje, !.dia2 = dia2]
             nada(msg) == /\ Leituras(tipo, hoje, dia2, dia3, FALSE, FALSE)
                          /\ last' = Ultima(op, arg, FALSE, msg)
                          /\ UNCHANGED contas
         IN  /\ hoje' = dia3
             /\ IF c = 0 THEN nada("cliente nao encontrado")
                ELSE IF ~p.ok THEN nada("valor invalido")
                ELSE IF Le(p.v, F(0)) THEN nada("valor deve ser positivo")
                ELSE IF i = 0 THEN nada("cliente nao possui conta")
                ELSE /\ Leituras(tipo, hoje, dia2, dia3, r.msg # "transacoes", r.res)
                     /\ contas' = [contas EXCEPT ![i] = r.conta]
                     /\ Cabe(contas')
                     /\ last' = Ultima(op, [arg EXCEPT !.conta = i, !.valor = p.v],
                                       r.res, r.msg)
    /\ UNCHANGED <<prog, pc, clientes, Desafio>>

MainDepositar == Transacionar("d", "Deposito")

MainSacar == Transacionar("s", "Saque")

\* exibir_extrato(clientes): command e
MainExibirExtrato ==
    /\ prog = "main"
    /\ pc = "menu"
    /\ \E cpf \in Cpfs :
         LET c == filtrar_cliente(cpf, clientes)
             i == recuperar_conta_cliente(clientes[c])
             arg == [SemArgs EXCEPT !.cpf = cpf]
         IN  last' = IF c = 0 THEN Ultima("e", arg, FALSE, "cliente nao encontrado")
                     ELSE IF i = 0 THEN Ultima("e", arg, FALSE, "cliente nao possui conta")
                     ELSE Ultima("e", [arg EXCEPT !.conta = i], TRUE, "ok")
    /\ UNCHANGED <<prog, pc, hoje, clientes, contas, Desafio>>

\* criar_cliente(clientes): command nu
MainCriarCliente ==
    /\ prog = "main"
    /\ pc = "menu"
    /\ \E texto \in Cpfs, nome \in Nomes :
         LET cpf == LerCpf(texto)
             arg == [SemArgs EXCEPT !.cpf = texto]
         IN  IF filtrar_cliente(cpf, clientes) # 0
             THEN /\ last' = Ultima("nu", arg, FALSE, "ja existe")
                  /\ UNCHANGED clientes
             ELSE /\ Len(clientes) < MaxClientes
                  /\ clientes' = Append(clientes, PessoaFisica(nome, cpf))
                  /\ last' = Ultima("nu", arg, TRUE, "ok")
    /\ UNCHANGED <<prog, pc, hoje, contas, Desafio>>

\* criar_conta(numero_conta, clientes, contas): command nc
MainCriarConta ==
    /\ prog = "main"
    /\ pc = "menu"
    /\ \E cpf \in Cpfs :
         LET numero_conta == Len(contas) + 1
             c == filtrar_cliente(cpf, clientes)
             arg == [SemArgs EXCEPT !.cpf = cpf]
         IN  IF c = 0
             THEN /\ last' = Ultima("nc", arg, FALSE, "cliente nao encontrado")
                  /\ UNCHANGED <<clientes, contas>>
             ELSE /\ Len(contas) < MaxContas
                  /\ contas' = Append(contas,
                         ContaCorrente_init(numero_conta, c, F(500), 3))
                  /\ clientes' = [clientes EXCEPT ![c].contas = Append(@, numero_conta)]
                  /\ last' = Ultima("nc", [arg EXCEPT !.conta = numero_conta], TRUE, "ok")
    /\ UNCHANGED <<prog, pc, hoje, Desafio>>

\* listar_contas(contas): command lc
MainListarContas ==
    /\ prog = "main"
    /\ pc = "menu"
    /\ last' = Ultima("lc", SemArgs, TRUE, "ok")
    /\ UNCHANGED <<prog, pc, hoje, clientes, contas, Desafio>>

\* command q
MainSair ==
    /\ prog = "main"
    /\ pc = "menu"
    /\ pc' = "fim"
    /\ last' = Ultima("q", SemArgs, TRUE, "ok")
    /\ UNCHANGED <<prog, hoje, clientes, contas, Desafio>>

\* any other command
MainInvalida ==
    /\ prog = "main"
    /\ pc = "menu"
    /\ last' = Ultima("?", SemArgs, FALSE, "invalida")
    /\ UNCHANGED <<prog, pc, hoje, clientes, contas, Desafio>>

NextMain ==
    \/ MainDepositar
    \/ MainSacar
    \/ MainExibirExtrato
    \/ MainCriarCliente
    \/ MainCriarConta
    \/ MainListarContas
    \/ MainSair
    \/ MainInvalida

\* the classes called directly, and the script
Next ==
    \/ PassaDia
    \/ NextApi
    \/ NextDesafio

Spec == Init /\ [][Next]_vars

\* one account, reached through Cliente.realizar_transacao alone
InitCliente == Inicio({"cliente"})

ClienteNovaConta ==
    /\ prog = "cliente"
    /\ contas = <<>>
    /\ \E lim \in Limites, ls \in LimitesSaquesCliente :
         contas' = Append(contas, ContaCorrente_init(Len(contas) + 1, 0, lim, ls))
    /\ last' = Ultima("nova_conta", [SemArgs EXCEPT !.conta = Len(contas) + 1], TRUE, "ok")
    /\ UNCHANGED <<prog, pc, hoje, clientes, Desafio>>

NextCliente ==
    \/ PassaDia
    \/ ClienteNovaConta
    \/ ApiRealizarTransacao

SpecCliente == InitCliente /\ [][NextCliente]_vars

\* the two shells: main() and the loop of desafio.py
InitShell == Inicio({"main", "desafio"})

NextShell ==
    \/ PassaDia
    \/ NextMain
    \/ NextDesafio

SpecShell == InitShell /\ [][NextShell]_vars

(* ------------------------------ the claims ----------------------------- *)
\* the last operation was a call on account last.arg.conta
Chamou(ops) == last.op \in ops /\ last.arg.conta # 0
\* that account before the call, and after it
ContaAntes == last.antes.contas[last.arg.conta]
ContaDepois == contas[last.arg.conta]
\* the last operation was a withdrawal that reached ContaCorrente.sacar
ChegouASacar ==
    /\ Chamou({"sacar", "registrar", "realizar_transacao", "s"})
    /\ last.arg.tipo = "Saque"
    /\ last.msg # "transacoes"
\* the last operation left the program's data as it found it
NadaMudou ==
    /\ clientes = last.antes.clientes
    /\ contas = last.antes.contas
    /\ saldo = last.antes.saldo
    /\ extrato = last.antes.extrato
    /\ numero_saques = last.antes.numero_saques
\* the withdrawals written in extrato
SaquesNoExtrato(e) == Len(SelectSeq(e, LAMBDA l : l.tipo = "Saque"))

\* C1: from a new account, whatever deposits and withdrawals are attempted, with
\* whatever amounts, the balance is >= 0 (the accounts of the object model and
\* the saldo of desafio.py).
C1_SaldoNuncaNegativo ==
    /\ \A i \in 1..Len(contas) : Ge(contas[i].saldo, F(0))
    /\ Ge(saldo, F(0))

\* C2: a realizar_transacao on an account that holds 2 records of the day it is
\* made on returns False and leaves the account as it was, whatever the amount,
\* the kind and the account's own caps; so an account reached through
\* realizar_transacao alone never holds more than 2 records of one day.
C2_TetoDiarioDoCliente ==
    /\ (/\ Chamou({"realizar_transacao"})
        /\ Len(transacoes_do_dia(ContaAntes.historico, last.arg.dia1)) >= 2)
       => (~last.res /\ NadaMudou)
    /\ \A i \in 1..Len(contas) : \A d \in Dias :
         Len(transacoes_do_dia(contas[i].historico, d)) <= 2

\* C2's case: a deposit of 100, fine by the account, refused on a day that
\* holds 2 records already
C2_Witness ==
    /\ Chamou({"realizar_transacao"})
    /\ Len(transacoes_do_dia(ContaAntes.historico, last.arg.dia1)) = 2
    /\ last.arg.tipo = "Deposito"
    /\ last.arg.valor = F(100)
    /\ ~last.res

C4_OrdemDasValidacoes ==
    (ChegouASacar /\ prog # "desafio") =>
        LET excede == Gt(last.arg.valor, ContaAntes.limite)
            cheio == Len(saques_do_dia(ContaAntes, last.arg.dia2)) >= ContaAntes.limite_saques
        IN  /\ excede => last.msg = "limite"
            /\ (~excede /\ cheio) => last.msg = "saques"
            /\ (~excede /\ ~cheio) => last.msg \in {"invalido", "saldo", "ok"}
            /\ ~last.res => NadaMudou

\* C4's case: 600 asked of a balance that covers it, on a day whose count of
\* withdrawals is reached
C4_Witness ==
    /\ ChegouASacar
    /\ prog = "api"
    /\ last.arg.valor = F(600)
    /\ Ge(ContaAntes.saldo, F(600))
    /\ Len(saques_do_dia(ContaAntes, last.arg.dia2)) >= ContaAntes.limite_saques
    /\ last.msg = "limite"

\* C5: an amount <= 0 is refused by sacar and by depositar, whatever the account
\* holds: the call returns False, the balance stays, and registrar appends no
\* record.
C5_ValorNaoPositivo ==
    (/\ last.op \in {"sacar", "depositar", "registrar", "realizar_transacao", "d", "s"}
     /\ Le(last.arg.valor, F(0)))
    => (~last.res /\ NadaMudou)

\* C5's case: Saque(0).registrar on an account that holds money and a record
C5_Witness ==
    /\ Chamou({"registrar"})
    /\ last.arg.tipo = "Saque"
    /\ last.arg.valor = F(0)
    /\ Gt(ContaAntes.saldo, F(0))
    /\ ContaAntes.historico # <<>>
    /\ ~last.res

\* C6: in both shells, an amount typed at command d or s that is no number is
\* reported and the command is dropped: the data stay as they were and the shell
\* is back at its menu; the process ends on command q alone.
C6_EntradaInvalidaVoltaAoMenu ==
    /\ (last.op \in {"d", "s"} /\ ~ParseFloat(last.arg.texto).ok)
       => (pc = "menu" /\ NadaMudou /\ ~last.res)
    /\ pc # "menu" => last.op = "q"

\* C7: the history is append-only and holds the transactions that succeeded: a
\* registrar (alone or under realizar_transacao) that returns True appends one
\* record, of its kind and amount, at the end; one that returns False, and any
\* other operation, leaves every history as it was; so a history is as long as
\* the count of the registrar calls on its account that returned True.
C7_HistoricoSoCresce ==
    /\ \A i \in 1..Len(last.antes.contas) :
        LET h0 == last.antes.contas[i].historico
            h1 == contas[i].historico
        IN  IF Chamou({"registrar", "realizar_transacao", "d", "s"})
               /\ last.arg.conta = i /\ last.res
            THEN /\ Len(h1) = Len(h0) + 1
                 /\ SubSeq(h1, 1, Len(h0)) = h0
                 /\ h1[Len(h1)].tipo = last.arg.tipo
                 /\ h1[Len(h1)].valor = last.arg.valor
            ELSE h1 = h0
    /\ \A i \in 1..Len(contas) : Len(contas[i].historico) = last.feitas[i]

\* C7's case: a registrar that returns True on an account that holds a record
C7_Witness ==
    /\ Chamou({"registrar"})
    /\ last.res
    /\ Len(ContaAntes.historico) = 1
    /\ Len(ContaDepois.historico) = 2
    /\ ContaDepois.historico[2].tipo = "Saque"

\* C8: command nu with a cpf that a client of the list has fails and leaves the
\* list, and that client's record, as they were; so no two clients of the list
\* have the same cpf.
C8_CpfUnico ==
    /\ (/\ last.op = "nu"
        /\ \E k \in 1..Len(last.antes.clientes) :
             last.antes.clientes[k].cpf = LerCpf(last.arg.cpf))
       => (~last.res /\ NadaMudou)
    /\ \A i, j \in 1..Len(clientes) : clientes[i].cpf = clientes[j].cpf => i = j

\* C8's case: with two clients in the list, one of them with an account, nu is
\* refused for a cpf typed with blanks and punctuation
C8_Witness ==
    /\ last.op = "nu"
    /\ last.msg = "ja existe"
    /\ Len(clientes) = 2
    /\ \E k \in 1..Len(clientes) :
         /\ clientes[k].cpf = LerCpf(last.arg.cpf)
         /\ clientes[k].cpf # last.arg.cpf
         /\ clientes[k].contas # <<>>

\* the same call made on day d, no midnight passing within it
Tentar(conta, tipo, valor, d) == realizar_transacao(conta, tipo, valor, d, d, Now(d))
\* the outcomes of the two daily caps
Tetos == {"transacoes", "saques"}
\* the records of h written on day d
RegistrosDoDia(h, d) == SelectSeq(h, LAMBDA t : t.data[1] = d)

\* C9: the daily caps count the records of the current day alone: a call on an
\* account that holds no record of the day is never refused for a daily cap; and
\* a call refused today for a daily cap alone (it is accepted on the same
\* account with no record) is accepted the next day, with the same amount and
\* balance, before any other transaction of that day.
C9_TetosValemPorDia ==
    /\ (/\ Chamou({"sacar", "registrar", "realizar_transacao"})
        /\ RegistrosDoDia(ContaAntes.historico, last.arg.dia1) = <<>>
        /\ RegistrosDoDia(ContaAntes.historico, last.arg.dia2) = <<>>)
       => last.msg \notin Tetos
    /\ \A i \in 1..Len(contas) : \A tipo \in Tipos : \A valor \in Valores :
         (/\ Tentar(contas[i], tipo, valor, hoje).msg \in Tetos
          /\ Tentar([contas[i] EXCEPT !.historico = <<>>], tipo, valor, hoje).res
          /\ RegistrosDoDia(contas[i].historico, hoje + 1) = <<>>)
         => Tentar(contas[i], tipo, valor, hoje + 1).res

\* C9's case: a withdrawal of 100 accepted on the first call of a day, on an
\* account whose records of the day before had it refused that day
C9_Witness ==
    /\ Chamou({"realizar_transacao"})
    /\ last.arg.tipo = "Saque"
    /\ last.arg.valor = F(100)
    /\ last.res
    /\ last.arg.dia1 > 0
    /\ RegistrosDoDia(ContaAntes.historico, last.arg.dia1) = <<>>
    /\ Tentar(ContaAntes, "Saque", F(100), last.arg.dia1 - 1).msg \in Tetos

\* the accounts as criar_conta builds them: limite 500, limite_saques 3
DoShell(conta) == conta.limite = F(500) /\ conta.limite_saques = 3

\* C10: on an account built as criar_conta builds it and reached through
\* realizar_transacao alone, the day's count of withdrawals never decides: no
\* day holds more than 2 Saque records, and no call is refused for the number of
\* withdrawals.
C10_LimiteDeSaquesNuncaDecide ==
    \A i \in 1..Len(contas) :
        DoShell(contas[i]) =>
            /\ \A d \in Dias : Len(saques_do_dia(contas[i], d)) <= 2
            /\ (Chamou({"realizar_transacao"}) /\ last.arg.conta = i) => last.msg # "saques"

\* C10's case: with 2 withdrawals of the day on such an account, a third one,
\* of 100, which the balance covers, is refused by the client's cap
C10_Witness ==
    /\ Chamou({"realizar_transacao"})
    /\ DoShell(ContaAntes)
    /\ Len(saques_do_dia(ContaAntes, last.arg.dia1)) = 2
    /\ last.arg.tipo = "Saque"
    /\ last.arg.valor = F(100)
    /\ Ge(ContaAntes.saldo, F(100))
    /\ last.msg = "transacoes"

====
